---- MODULE Spec2Model ----
(***************************************************************************)
(* Model of cmd/linuxkit/pkglib/docker.go: the push pipeline               *)
(* (pushWithManifest), the manifest-list composer (manifestPush), the      *)
(* trust signer (signManifest) and the command executor (command) with its *)
(* wrappers pull, push, tag, build and save.                               *)
(*                                                                         *)
(* Go strings that the code parses or concatenates are sequences of        *)
(* one-character strings; command words of the docker and notary command   *)
(* lines that the code writes as literals are plain strings.               *)
(***************************************************************************)
EXTENDS Integers, Sequences, FiniteSets, TLC

VARIABLES dr, img, suffix, pushImage, pushManifest, sign, platforms,
          auth, digest, l, err, pc, log,
          wrapper, osEnv, cmd, eg, firstFailed, found

vars == <<dr, img, suffix, pushImage, pushManifest, sign, platforms,
          auth, digest, l, err, pc, log,
          wrapper, osEnv, cmd, eg, firstFailed, found>>

\* the state of one call of command: the wrapper called, the environment of
\* the process, the exec.Cmd, the errgroup, which of the copy and the engine
\* process failed first, and the boolean pull returns
cvars == <<wrapper, osEnv, cmd, eg, firstFailed, found>>

(***************************************************************************)
(* Bounds                                                                  *)
(***************************************************************************)
MaxImgLen == 3
MaxPlatforms == 2

(***************************************************************************)
(* Strings                                                                 *)
(***************************************************************************)
RECURSIVE SeqsUpTo(_, _)
SeqsUpTo(S, n) ==
  IF n = 0 THEN {<<>>}
  ELSE LET shorter == SeqsUpTo(S, n - 1)
       IN  shorter \cup {Append(s, c) : s \in shorter, c \in S}

IndexOf(s, sep) ==
  IF \E i \in 1..Len(s) : s[i] = sep
  THEN CHOOSE i \in 1..Len(s) : s[i] = sep /\ \A j \in 1..(i - 1) : s[j] # sep
  ELSE 0

\* strings.Split(s, sep) for a one-character separator: n separators give
\* n+1 parts, the empty string gives one empty part
RECURSIVE Split(_, _)
Split(s, sep) ==
  LET i == IndexOf(s, sep)
  IN  IF i = 0 THEN <<s>>
      ELSE <<SubSeq(s, 1, i - 1)>> \o Split(SubSeq(s, i + 1, Len(s)), sep)

Digit(d) == CASE d = 0 -> "0" [] d = 1 -> "1" [] d = 2 -> "2" [] d = 3 -> "3"
              [] d = 4 -> "4" [] d = 5 -> "5" [] d = 6 -> "6" [] d = 7 -> "7"
              [] d = 8 -> "8" [] d = 9 -> "9"

\* strconv.Itoa
RECURSIVE Itoa(_)
Itoa(n) ==
  IF n < 0 THEN <<"-">> \o Itoa(0 - n)
  ELSE IF n < 10 THEN <<Digit(n)>>
  ELSE Append(Itoa(n \div 10), Digit(n % 10))

sha256 == <<"s", "h", "a", "2", "5", "6">>
dockerIo == <<"d", "o", "c", "k", "e", "r", ".", "i", "o", "/">>

(***************************************************************************)
(* Program constants                                                       *)
(***************************************************************************)
dctEnableEnv == "DOCKER_CONTENT_TRUST=1"
registryServer == "https://index.docker.io/v1/"
notaryServer == "https://notary.docker.io"

linux == <<"l", "i", "n", "u", "x">>
amd64 == <<"a", "m", "d", "6", "4">>
arm64 == <<"a", "r", "m", "6", "4">>
s390x == <<"s", "3", "9", "0", "x">>
riscv64 == <<"r", "i", "s", "c", "v", "6", "4">>

defaultPlatforms ==
  << linux \o <<"/">> \o amd64, linux \o <<"/">> \o arm64,
     linux \o <<"/">> \o s390x, linux \o <<"/">> \o riscv64 >>

(***************************************************************************)
(* Errors: records with a kind; nil is the record of kind "nil"            *)
(***************************************************************************)
Nil == [kind |-> "nil"]
IsNil(e) == e.kind = "nil"

(***************************************************************************)
(* Input domains                                                           *)
(***************************************************************************)
ImgAlphabet == {"r", ":", "t"}
\* every image reference over the alphabet, up to MaxImgLen characters
AllImages == SeqsUpTo(ImgAlphabet, MaxImgLen)
\* image references given to the pipeline: repo:tag, no colon, empty tag,
\* a registry port
Images == { <<"r", ":", "t">>, <<"r">>, <<"r", ":">>,
            <<"h", ":", "5", "/", "r", ":", "t">> }
Suffixes == { <<>>, <<"-">> \o amd64 }

Digests == { <<>>,
             sha256 \o <<":", "a", "b">>,
             sha256,
             sha256 \o <<":">>,
             sha256 \o <<":", "a", ":", "b">>,
             <<"s", "h", "a", "5", "1", "2", ":", "a", "b">>,
             <<"s", "h", "a", "2", "5", ":", "a", "b">>,
             sha256 \o <<"6", ":", "a", "b">>,
             <<"S", "H", "A", "2", "5", "6", ":", "a", "b">>,
             <<":", "a", "b">>,
             <<"a", "b">>,
             <<"m", "d", "5", ":">> \o sha256 }
\* the digests the registry reports in a pipeline run
RegistryDigests == { sha256 \o <<":", "a", "b">>,
                     <<"s", "h", "a", "5", "1", "2", ":", "a", "b">>,
                     <<"a", "b">> }
Lengths == {0, 528}

AuthConfigs == { [Username |-> <<"u">>, Password |-> <<"p">>],
                 [Username |-> <<>>, Password |-> <<>>] }
NoAuth == [Username |-> <<>>, Password |-> <<>>]

PlatformStrings ==
  { linux \o <<"/">> \o amd64,
    linux \o <<"/">> \o arm64,
    linux \o <<"/", "a", "r", "m", "/", "v", "7">>,
    <<"w", "i", "n", "d", "o", "w", "s">>,
    <<"a", "/", "b", "/", "c", "/", "d">>,
    linux \o <<"/">>,
    <<"/">>,
    <<>> }
PlatformLists == SeqsUpTo(PlatformStrings, MaxPlatforms)

\* how cmd.Run can end: exit status zero, *exec.ExitError, *exec.Error with
\* exec.ErrNotFound, any other error
RunOutcomes == {"ok", "exit", "notfound", "other"}

(***************************************************************************)
(* Command Executor                                                        *)
(***************************************************************************)
isPush(args) == Len(args) >= 2 /\ args[1] = "image" /\ args[2] = "push"

\* the trust variable given to signing runners only
commandEnv_signOnly(d, args) ==
  IF d.dct /\ d.sign THEN <<dctEnableEnv>> ELSE <<>>

\* the variables command appends to the environment of the docker process
commandEnv(d, args) ==
  IF d.dct /\ (~isPush(args) \/ d.sign) THEN <<dctEnableEnv>> ELSE <<>>

\* command dropping the error of the run
command_swallow(d, args, run) ==
  [ events |-> << [op |-> "docker", args |-> args,
                   env |-> commandEnv(d, args), run |-> run] >>,
    err    |-> Nil ]

\* command, for the invocations that are not a build: one run of docker
command(d, args, run) ==
  [ events |-> << [op |-> "docker", args |-> args,
                   env |-> commandEnv(d, args), run |-> run] >>,
    err    |-> CASE run = "ok"       -> Nil
                 [] run = "notfound" -> [kind |-> "tool-missing", tool |-> "docker"]
                 [] run = "exit"     -> [kind |-> "exit", tool |-> "docker"]
                 [] OTHER            -> [kind |-> "other", tool |-> "docker"] ]

push(d, image, run) == command(d, <<"image", "push", image>>, run)

(***************************************************************************)
(* Auth Resolver                                                           *)
(***************************************************************************)
\* getDockerAuth dropping the error of the credential store
getDockerAuth_swallow(ok, cred) ==
  [ events |-> << [op |-> "getDockerAuth", server |-> registryServer,
                   ok |-> ok] >>,
    auth   |-> IF ok THEN cred ELSE NoAuth,
    err    |-> Nil ]

\* getDockerAuth: the credential store answers with credentials or an error
getDockerAuth(ok, cred) ==
  [ events |-> << [op |-> "getDockerAuth", server |-> registryServer,
                   ok |-> ok] >>,
    auth   |-> IF ok THEN cred ELSE NoAuth,
    err    |-> IF ok THEN Nil ELSE [kind |-> "credential"] ]

(***************************************************************************)
(* Manifest Composer                                                       *)
(***************************************************************************)
\* what the registry does with one push: which of the submitted entries have
\* their image in the registry, whether the transfer itself works, and the
\* digest and length it reports
RegistryEnvs(n) ==
  [ present : SUBSET (1..n), fail : BOOLEAN, digest : RegistryDigests,
    length : Lengths ]

\* the entries of seq at the positions in keep, from position i on
RECURSIVE Pick(_, _, _)
Pick(seq, keep, i) ==
  IF i > Len(seq) THEN <<>>
  ELSE (IF i \in keep THEN <<seq[i]>> ELSE <<>>) \o Pick(seq, keep, i + 1)

\* registry.PushManifestList(username, password, input, ignoreMissing,
\* insecure, plainHttp, configDir): entries whose image is absent stop the
\* push, or are left out when ignoreMissing is set; a list with no entry left
\* is not pushed
PushManifestList(username, password, input, ignoreMissing, insecure, plainHttp, configDir, reg) ==
  LET n       == Len(input.Manifests)
      missing == (1..n) \ reg.present
      kept    == Pick(input.Manifests, reg.present, 1)
      call    == [op |-> "PushManifestList", username |-> username,
                  password |-> password, input |-> input,
                  ignoreMissing |-> ignoreMissing, insecure |-> insecure,
                  plainHttp |-> plainHttp, configDir |-> configDir]
      failure(k) == [events |-> <<call>>, hash |-> <<>>, length |-> 0,
                     err |-> [kind |-> k]]
  IN  IF missing # {} /\ ~ignoreMissing THEN failure("registry-missing")
      ELSE IF ignoreMissing /\ Len(kept) = 0 THEN failure("registry-empty")
      ELSE IF reg.fail THEN failure("registry")
      ELSE [events |-> <<call, [op |-> "manifest-list", image |-> input.Image,
                                manifests |-> kept]>>,
            hash |-> reg.digest, length |-> reg.length, err |-> Nil]

\* an entry whose image reference takes the os for the architecture
ManifestEntry_os(image, platform) ==
  LET osArchArr == Split(platform, "/")
  IN  [ Image    |-> image \o <<"-">> \o osArchArr[1],
        Platform |-> [ OS           |-> osArchArr[1],
                       Architecture |-> osArchArr[2],
                       Variant      |-> IF Len(osArchArr) = 3
                                        THEN osArchArr[3] ELSE <<>> ] ]

\* one entry of srcImages
ManifestEntry(image, platform) ==
  LET osArchArr == Split(platform, "/")
  IN  [ Image    |-> image \o <<"-">> \o osArchArr[2],
        Platform |-> [ OS           |-> osArchArr[1],
                       Architecture |-> osArchArr[2],
                       Variant      |-> IF Len(osArchArr) = 3
                                        THEN osArchArr[3] ELSE <<>> ] ]

wellFormed(platform) ==
  Len(Split(platform, "/")) = 2 \/ Len(Split(platform, "/")) = 3

\* the loop reporting the last malformed entry
firstBad_last(plats) ==
  LET bad == {i \in 1..Len(plats) : ~wellFormed(plats[i])}
  IN  IF bad = {} THEN 0 ELSE CHOOSE i \in bad : \A j \in bad : i >= j

\* the position (from 1) at which the loop over platforms stops with the
\* validation error, 0 when it runs to its end
firstBad(plats) ==
  LET bad == {i \in 1..Len(plats) : ~wellFormed(plats[i])}
  IN  IF bad = {} THEN 0 ELSE CHOOSE i \in bad : \A j \in bad : i <= j

\* manifestPush with ignoreMissing false
manifestPush_strict(image, a, plats, reg) ==
  LET i    == firstBad(plats)
      call == [op |-> "manifestPush", img |-> image]
  IN  IF i # 0
      THEN [ events |-> <<call>>, hash |-> <<>>, length |-> 0,
             err |-> [kind |-> "validation", what |-> "platform",
                      index |-> i - 1, value |-> plats[i]] ]
      ELSE LET srcImages == [k \in 1..Len(plats) |-> ManifestEntry(image, plats[k])]
               yamlInput == [Image |-> image, Manifests |-> srcImages]
               r == PushManifestList(a.Username, a.Password, yamlInput,
                                     FALSE, FALSE, FALSE, <<>>, reg)
           IN  [r EXCEPT !.events = <<call>> \o r.events]

manifestPush(image, a, plats, reg) ==
  LET i    == firstBad(plats)
      call == [op |-> "manifestPush", img |-> image]
  IN  IF i # 0
      THEN [ events |-> <<call>>, hash |-> <<>>, length |-> 0,
             err |-> [kind |-> "validation", what |-> "platform",
                      index |-> i - 1, value |-> plats[i]] ]
      ELSE LET srcImages == [k \in 1..Len(plats) |-> ManifestEntry(image, plats[k])]
               yamlInput == [Image |-> image, Manifests |-> srcImages]
               r == PushManifestList(a.Username, a.Password, yamlInput,
                                     TRUE, FALSE, FALSE, <<>>, reg)
           IN  [r EXCEPT !.events = <<call>> \o r.events]

(***************************************************************************)
(* Trust Signer                                                            *)
(***************************************************************************)
\* the arguments with the repository left without its docker.io/ namespace
notaryArgs_bareRepo(repo, tag, length, hash) ==
  << "-s", notaryServer, "-d", "$HOME/.docker/trust", "addhash", "-p",
     repo, tag, Itoa(length), "--sha256", hash,
     "-r", "targets/releases" >>

notaryArgs(repo, tag, length, hash) ==
  << "-s", notaryServer, "-d", "$HOME/.docker/trust", "addhash", "-p",
     dockerIo \o repo, tag, Itoa(length), "--sha256", hash,
     "-r", "targets/releases" >>

\* the run of the notary tool at the end of signManifest
notaryRun(repo, tag, length, hash, a, run) ==
  [ events |-> << [op |-> "notary",
                   args |-> notaryArgs(repo, tag, length, hash),
                   env |-> [NOTARY_DELEGATION_PASSPHRASE |->
                              "$DOCKER_CONTENT_TRUST_REPOSITORY_PASSPHRASE",
                            NOTARY_AUTH |->
                              [base64 |-> a.Username \o <<":">> \o a.Password]],
                   run |-> run] >>,
    err |-> IF run = "ok" THEN Nil ELSE [kind |-> "notary", cause |-> run] ]

\* signManifest without the check of the image reference
signManifest_noImgCheck(image, dg, length, a, run) ==
  LET imgParts    == Split(image, ":")
      digestParts == Split(dg, ":")
      call == [op |-> "signManifest", img |-> image, digest |-> dg,
               length |-> length]
      invalid(what, value) ==
        [ events |-> <<call>>,
          err |-> [kind |-> "validation", what |-> what, value |-> value] ]
  IN  IF Len(digestParts) < 2 THEN invalid("digest", dg)
      ELSE IF digestParts[1] # sha256 THEN invalid("algo", digestParts[1])
      ELSE LET r == notaryRun(imgParts[1],
                              IF Len(imgParts) < 2 THEN <<>> ELSE imgParts[2],
                              length, digestParts[2], a, run)
           IN  [r EXCEPT !.events = <<call>> \o r.events]

\* signManifest without the check of the digest algorithm
signManifest_anyAlgo(image, dg, length, a, run) ==
  LET imgParts    == Split(image, ":")
      digestParts == Split(dg, ":")
      call == [op |-> "signManifest", img |-> image, digest |-> dg,
               length |-> length]
      invalid(what, value) ==
        [ events |-> <<call>>,
          err |-> [kind |-> "validation", what |-> what, value |-> value] ]
  IN  IF Len(imgParts) < 2 THEN invalid("image", image)
      ELSE IF Len(digestParts) < 2 THEN invalid("digest", dg)
      ELSE LET r == notaryRun(imgParts[1], imgParts[2], length,
                              digestParts[2], a, run)
           IN  [r EXCEPT !.events = <<call>> \o r.events]

signManifest(image, dg, length, a, run) ==
  LET imgParts    == Split(image, ":")
      digestParts == Split(dg, ":")
      call == [op |-> "signManifest", img |-> image, digest |-> dg,
               length |-> length]
      invalid(what, value) ==
        [ events |-> <<call>>,
          err |-> [kind |-> "validation", what |-> what, value |-> value] ]
  IN  IF Len(imgParts) < 2 THEN invalid("image", image)
      ELSE IF Len(digestParts) < 2 THEN invalid("digest", dg)
      ELSE IF digestParts[1] # sha256 THEN invalid("algo", digestParts[1])
      ELSE LET r == notaryRun(imgParts[1], imgParts[2], length,
                              digestParts[2], a, run)
           IN  [r EXCEPT !.events = <<call>> \o r.events]

(***************************************************************************)
(* Pipeline Coordinator: one call of pushWithManifest                      *)
(***************************************************************************)
Return(e) == pc' = "return" /\ err' = e

\* the image stage pushing whatever the flag
imageStage_always(d, flag, image, run) == push(d, image, run)

\* if pushImage { dr.push(img + suffix) } else { skip }
imageStage(d, flag, image, run) ==
  IF flag THEN push(d, image, run) ELSE [events |-> <<>>, err |-> Nil]

PushImage ==
  /\ pc = "pushImage"
  /\ \E run \in RunOutcomes :
       LET r == imageStage(dr, pushImage, img \o suffix, run)
       IN  /\ log' = log \o r.events
           /\ IF IsNil(r.err)
              THEN pc' = "getDockerAuth" /\ UNCHANGED err
              ELSE Return(r.err)
  /\ UNCHANGED cvars
  /\ UNCHANGED <<dr, img, suffix, pushImage, pushManifest, sign, platforms,
                 auth, digest, l>>

\* auth, err := getDockerAuth()
GetAuth ==
  /\ pc = "getDockerAuth"
  /\ \E ok \in BOOLEAN, cred \in AuthConfigs :
       LET r == getDockerAuth(ok, cred)
       IN  /\ log' = log \o r.events
           /\ auth' = r.auth
           /\ IF IsNil(r.err)
              THEN pc' = "pushManifest" /\ UNCHANGED err
              ELSE Return([kind |-> "auth", cause |-> r.err])
  /\ UNCHANGED cvars
  /\ UNCHANGED <<dr, img, suffix, pushImage, pushManifest, sign, platforms,
                 digest, l>>

\* if pushManifest { digest, l, err = manifestPush(img, auth) }
PushManifest ==
  /\ pc = "pushManifest"
  /\ IF pushManifest
     THEN \E reg \in RegistryEnvs(Len(platforms)) :
            LET r == manifestPush(img, auth, platforms, reg)
            IN  /\ log' = log \o r.events
                /\ digest' = r.hash
                /\ l' = r.length
                /\ IF IsNil(r.err)
                   THEN pc' = "sign" /\ UNCHANGED err
                   ELSE Return(r.err)
     ELSE /\ pc' = "sign"
          /\ UNCHANGED <<log, digest, l, err>>
  /\ UNCHANGED cvars
  /\ UNCHANGED <<dr, img, suffix, pushImage, pushManifest, sign, platforms, auth>>

\* the sign stage without the check of the runner's content trust
signStage_noTrust(d, sg, image, dg, length, a, run) ==
  IF ~sg THEN [events |-> <<>>, err |-> Nil]
  ELSE signManifest(image, dg, length, a, run)

\* the sign stage without the check of the sign argument
signStage_noSignArg(d, sg, image, dg, length, a, run) ==
  IF ~d.dct THEN [events |-> <<>>, err |-> Nil]
  ELSE signManifest(image, dg, length, a, run)

\* the sign stage skipping the signer when no digest was captured
signStage_skipUnpushed(d, sg, image, dg, length, a, run) ==
  IF ~d.dct THEN [events |-> <<>>, err |-> Nil]
  ELSE IF ~sg THEN [events |-> <<>>, err |-> Nil]
  ELSE IF dg = <<>> THEN [events |-> <<>>, err |-> Nil]
  ELSE signManifest(image, dg, length, a, run)

\* the trust and sign checks, then signManifest(img, digest, l, auth)
signStage(d, sg, image, dg, length, a, run) ==
  IF ~d.dct THEN [events |-> <<>>, err |-> Nil]
  ELSE IF ~sg THEN [events |-> <<>>, err |-> Nil]
  ELSE signManifest(image, dg, length, a, run)

Sign ==
  /\ pc = "sign"
  /\ \E run \in RunOutcomes :
       LET r == signStage(dr, sign, img, digest, l, auth, run)
       IN  log' = log \o r.events /\ Return(r.err)
  /\ UNCHANGED cvars
  /\ UNCHANGED <<dr, img, suffix, pushImage, pushManifest, sign, platforms,
                 auth, digest, l>>

Runners == [dct : BOOLEAN, cache : {TRUE}, sign : BOOLEAN, ctx : {FALSE}]

\* no call of command under way
NoCall == [op |-> "none"]
NoEnv == [n \in {} |-> <<>>]
IdleCmd == [Args |-> <<>>, Env |-> <<>>, proc |-> "idle", cause |-> "none"]
IdleGroup == [copy |-> "none"]
InitCommandIdle ==
  /\ wrapper = NoCall
  /\ osEnv = NoEnv
  /\ cmd = IdleCmd
  /\ eg = IdleGroup
  /\ firstFailed = "none"
  /\ found = FALSE

Init ==
  /\ dr \in Runners
  /\ img \in Images
  /\ suffix \in Suffixes
  /\ pushImage \in BOOLEAN
  /\ pushManifest \in BOOLEAN
  /\ sign \in BOOLEAN
  /\ platforms = defaultPlatforms
  /\ auth = NoAuth
  /\ digest = <<>>
  /\ l = 0
  /\ err = Nil
  /\ pc = "pushImage"
  /\ log = <<>>
  /\ InitCommandIdle

Next == PushImage \/ GetAuth \/ PushManifest \/ Sign

Spec == Init /\ [][Next]_vars

(***************************************************************************)
(* manifestPush called on its own, over every platform list                *)
(***************************************************************************)
CallManifestPush ==
  /\ pc = "manifestPush"
  /\ \E reg \in RegistryEnvs(Len(platforms)) :
       LET r == manifestPush(img, auth, platforms, reg)
       IN  /\ log' = log \o r.events
           /\ digest' = r.hash
           /\ l' = r.length
           /\ Return(r.err)
  /\ UNCHANGED cvars
  /\ UNCHANGED <<dr, img, suffix, pushImage, pushManifest, sign, platforms, auth>>

InitManifest ==
  /\ dr = [dct |-> FALSE, cache |-> TRUE, sign |-> FALSE, ctx |-> FALSE]
  /\ img \in Images
  /\ suffix = <<>>
  /\ pushImage = FALSE
  /\ pushManifest = TRUE
  /\ sign = FALSE
  /\ platforms \in PlatformLists
  /\ auth \in AuthConfigs
  /\ digest = <<>>
  /\ l = 0
  /\ err = Nil
  /\ pc = "manifestPush"
  /\ log = <<>>
  /\ InitCommandIdle

NextManifest == CallManifestPush

SpecManifest == InitManifest /\ [][NextManifest]_vars

(***************************************************************************)
(* signManifest called on its own, over every image reference and digest   *)
(***************************************************************************)
CallSignManifest ==
  /\ pc = "signManifest"
  /\ \E run \in RunOutcomes :
       LET r == signManifest(img, digest, l, auth, run)
       IN  log' = log \o r.events /\ Return(r.err)
  /\ UNCHANGED cvars
  /\ UNCHANGED <<dr, img, suffix, pushImage, pushManifest, sign, platforms,
                 auth, digest, l>>

InitSign ==
  /\ dr = [dct |-> TRUE, cache |-> TRUE, sign |-> TRUE, ctx |-> FALSE]
  /\ img \in AllImages \cup Images
  /\ suffix = <<>>
  /\ pushImage = FALSE
  /\ pushManifest = FALSE
  /\ sign = TRUE
  /\ platforms = defaultPlatforms
  /\ auth \in AuthConfigs
  /\ digest \in Digests
  /\ l \in Lengths
  /\ err = Nil
  /\ pc = "signManifest"
  /\ log = <<>>
  /\ InitCommandIdle

NextSign == CallSignManifest

SpecSign == InitSign /\ [][NextSign]_vars

(***************************************************************************)
(* Command Executor: the build arguments                                   *)
(***************************************************************************)
proxyEnvVars ==
  << "http_proxy", "https_proxy", "no_proxy", "ftp_proxy", "all_proxy",
     "HTTP_PROXY", "HTTPS_PROXY", "NO_PROXY", "FTP_PROXY", "ALL_PROXY" >>
buildArgsEnv == "LK_BUILD_ARGS"

\* os.LookupEnv
LookupEnv(env, name) == name \in DOMAIN env

\* fmt.Sprintf("%s=%s", k, v)
Kv(k, v) == <<k, "=", v>>

\* the --build-arg pairs of the proxy variables found in the environment,
\* from the i-th name of proxyEnvVars on
RECURSIVE proxyBuildArgs(_, _)
proxyBuildArgs(env, i) ==
  IF i > Len(proxyEnvVars) THEN <<>>
  ELSE (IF LookupEnv(env, proxyEnvVars[i])
        THEN <<"--build-arg", Kv(proxyEnvVars[i], env[proxyEnvVars[i]])>>
        ELSE <<>>) \o proxyBuildArgs(env, i + 1)

IsDigit(c) == \E d \in 0..9 : Digit(d) = c
\* the position of the first quote of s at or after i, 0 when there is none
NextQuote(s, i) ==
  IF \E j \in i..Len(s) : s[j] = "\""
  THEN CHOOSE j \in i..Len(s) : s[j] = "\"" /\ \A k \in i..(j - 1) : s[k] # "\""
  ELSE 0
\* the position after the digits of s that start at i
RECURSIVE AfterDigits(_, _)
AfterDigits(s, i) ==
  IF i <= Len(s) /\ IsDigit(s[i]) THEN AfterDigits(s, i + 1) ELSE i

SyntaxError == [syntax |-> FALSE, type |-> FALSE, pairs |-> <<>>]

\* the members of a JSON object from position i of s on, up to the closing
\* brace that ends s: a string value gives a pair, a number value is a value
\* of the wrong type for map[string]string and is skipped
RECURSIVE Members(_, _)
Members(s, i) ==
  IF i > Len(s) \/ s[i] # "\"" THEN SyntaxError
  ELSE LET j == NextQuote(s, i + 1)
       IN  IF j = 0 \/ j + 2 > Len(s) \/ s[j + 1] # ":" THEN SyntaxError
           ELSE LET key    == SubSeq(s, i + 1, j - 1)
                    isStr  == s[j + 2] = "\""
                    q      == IF isStr THEN NextQuote(s, j + 3) ELSE 0
                    next   == IF isStr THEN q + 1 ELSE AfterDigits(s, j + 2)
                    pair   == IF isStr THEN <<<<key, SubSeq(s, j + 3, q - 1)>>>>
                              ELSE <<>>
                IN  IF (isStr /\ q = 0) \/ (~isStr /\ ~IsDigit(s[j + 2]))
                       \/ next > Len(s)
                    THEN SyntaxError
                    ELSE IF s[next] = "}"
                    THEN IF next = Len(s)
                         THEN [syntax |-> TRUE, type |-> ~isStr, pairs |-> pair]
                         ELSE SyntaxError
                    ELSE IF s[next] = ","
                    THEN LET r == Members(s, next + 1)
                         IN  IF r.syntax
                             THEN [syntax |-> TRUE, type |-> ~isStr \/ r.type,
                                   pairs |-> pair \o r.pairs]
                             ELSE SyntaxError
                    ELSE SyntaxError

\* the map a sequence of pairs gives, a later pair replacing an earlier one
\* with the same key
RECURSIVE MapOf(_)
MapOf(pairs) ==
  IF Len(pairs) = 0 THEN [k \in {} |-> <<>>]
  ELSE LET last == pairs[Len(pairs)]
           rest == MapOf(SubSeq(pairs, 1, Len(pairs) - 1))
       IN  [k \in DOMAIN rest \cup {last[1]} |->
              IF k = last[1] THEN last[2] ELSE rest[k]]

\* json.Unmarshal([]byte(value), &KVs) for KVs map[string]string: a text
\* that is not valid JSON leaves KVs untouched and gives an error; a value of
\* the wrong type gives an error and is skipped, the rest is still decoded;
\* null gives the nil map and no error
Unmarshal(s) ==
  IF s = <<"n", "u", "l", "l">> THEN [err |-> FALSE, KVs |-> MapOf(<<>>)]
  ELSE IF Len(s) < 2 \/ s[1] # "{" THEN [err |-> TRUE, KVs |-> MapOf(<<>>)]
  ELSE IF s = <<"{", "}">> THEN [err |-> FALSE, KVs |-> MapOf(<<>>)]
  ELSE LET r == Members(s, 2)
       IN  IF r.syntax THEN [err |-> r.type, KVs |-> MapOf(r.pairs)]
           ELSE [err |-> TRUE, KVs |-> MapOf(<<>>)]

\* the orders in which range can visit the keys of a map
Orderings(S) ==
  {o \in [1..Cardinality(S) -> S] : \A i, j \in 1..Cardinality(S) : o[i] = o[j] => i = j}

RECURSIVE mapBuildArgs(_, _, _)
mapBuildArgs(KVs, order, i) ==
  IF i > Len(order) THEN <<>>
  ELSE <<"--build-arg", Kv(order[i], KVs[order[i]])>> \o mapBuildArgs(KVs, order, i + 1)

\* the build arguments of LK_BUILD_ARGS, used although the decoding failed
extraBuildArgs_ignoreErr(env, order) ==
  IF LookupEnv(env, buildArgsEnv)
  THEN mapBuildArgs(Unmarshal(env[buildArgsEnv]).KVs, order, 1)
  ELSE <<>>

\* the build arguments of LK_BUILD_ARGS
extraBuildArgs(env, order) ==
  IF LookupEnv(env, buildArgsEnv) /\ ~Unmarshal(env[buildArgsEnv]).err
  THEN mapBuildArgs(Unmarshal(env[buildArgsEnv]).KVs, order, 1)
  ELSE <<>>

\* the keys range goes over
extraKeys(env) ==
  IF LookupEnv(env, buildArgsEnv)
  THEN DOMAIN Unmarshal(env[buildArgsEnv]).KVs ELSE {}

\* values of LK_BUILD_ARGS that are JSON objects of strings
ValidBuildArgs == {
    \* {"k":"v"}
    <<"{", "\"", "k", "\"", ":", "\"", "v", "\"", "}">>,
    \* {}
    <<"{", "}">>,
    \* {"k":"v","a":"b"}
    <<"{", "\"", "k", "\"", ":", "\"", "v", "\"", ",", "\"", "a", "\"", ":", "\"", "b", "\"", "}">> }
\* values of LK_BUILD_ARGS that are not
InvalidBuildArgs == {
    \* {"k":"v"
    <<"{", "\"", "k", "\"", ":", "\"", "v", "\"">>,
    \* k=v
    <<"k", "=", "v">>,
    \* (empty)
    <<>>,
    \* {"k":1}
    <<"{", "\"", "k", "\"", ":", "1", "}">>,
    \* {"k":"v","a":1}
    <<"{", "\"", "k", "\"", ":", "\"", "v", "\"", ",", "\"", "a", "\"", ":", "1", "}">>,
    \* ["k"]
    <<"[", "\"", "k", "\"", "]">>,
    \* null
    <<"n", "u", "l", "l">>,
    \* {"k":"v"}x
    <<"{", "\"", "k", "\"", ":", "\"", "v", "\"", "}", "x">>,
    \* {"k":"v",}
    <<"{", "\"", "k", "\"", ":", "\"", "v", "\"", ",", "}">> }

ProxyEnvs ==
  { [n \in {} |-> <<>>],
    [n \in {"http_proxy"} |-> <<"p">>],
    [n \in {"no_proxy", "HTTP_PROXY"} |-> IF n = "no_proxy" THEN <<>> ELSE <<"p">>],
    [n \in {proxyEnvVars[i] : i \in 1..Len(proxyEnvVars)} |-> <<"p">>] }
OsEnvs ==
  ProxyEnvs \cup
  { [n \in DOMAIN e \cup {buildArgsEnv} |-> IF n = buildArgsEnv THEN t ELSE e[n]] :
      e \in ProxyEnvs, t \in ValidBuildArgs \cup InvalidBuildArgs }

(***************************************************************************)
(* Command Executor: the wrappers and one call of command                  *)
(***************************************************************************)
\* why the engine exits with a failure status: the image is not in the
\* registry, or anything else (network, daemon, credentials)
ExitCauses == {"absent", "network"}

\* pull: what it makes of the error of command
pullResult(r) ==
  IF IsNil(r.err) THEN [events |-> r.events, found |-> TRUE, err |-> Nil]
  ELSE IF r.err.kind = "exit"
  THEN [events |-> r.events, found |-> FALSE, err |-> Nil]
  ELSE [events |-> r.events, found |-> FALSE, err |-> r.err]

pull(d, image, run) == pullResult(command(d, <<"image", "pull", image>>, run))
tag(d, ref, t, run) == command(d, <<"image", "tag", ref, t>>, run)
save(d, tgt, refs, run) == command(d, <<"image", "save", "-o", tgt>> \o refs, run)
\* the arguments build hands to command
build(d, t, pkg, opts) ==
  <<"build">> \o (IF ~d.cache THEN <<"--no-cache">> ELSE <<>>) \o opts
    \o <<"-t", t, pkg>>

\* the marker for a build context read from standard input
stdinMarker == <<"-">>

\* the error command returns when cmd.Run ends with a failure the engine
\* reported by its exit status taken for a success
runErr_exitOk(run) ==
  CASE run = "ok"       -> Nil
    [] run = "notfound" -> [kind |-> "tool-missing", tool |-> "docker"]
    [] run = "exit"     -> Nil
    [] OTHER            -> [kind |-> "other", tool |-> "docker"]

\* the error command returns for the way cmd.Run ended
runErr(run) ==
  CASE run = "ok"       -> Nil
    [] run = "notfound" -> [kind |-> "tool-missing", tool |-> "docker"]
    [] run = "exit"     -> [kind |-> "exit", tool |-> "docker"]
    [] OTHER            -> [kind |-> "other", tool |-> "docker"]

\* eg.Wait() dropping the error of the copy
waitErr_swallow(copy) == Nil

\* eg.Wait(): the error of the copy task, nil when there is none
waitErr(copy) == IF copy = "failed" THEN [kind |-> "copy"] ELSE Nil

pvars == <<img, suffix, pushImage, pushManifest, sign, platforms, auth, digest, l>>

Fails(who) == IF firstFailed = "none" THEN who ELSE firstFailed

\* pull, push, tag and save: command with no build branch and no copy task
Command ==
  /\ pc = "command"
  /\ wrapper.op # "build"
  /\ \E run \in RunOutcomes, cause \in ExitCauses :
       LET r == CASE wrapper.op = "pull" -> pull(dr, wrapper.img, run)
                  [] wrapper.op = "push" -> push(dr, wrapper.img, run)
                  [] wrapper.op = "tag"  -> tag(dr, wrapper.ref, wrapper.tag, run)
                  [] wrapper.op = "save" -> save(dr, wrapper.tgt, wrapper.refs, run)
       IN  /\ log' = log \o r.events
           /\ cmd' = [Args  |-> <<"docker">> \o r.events[1].args,
                      Env   |-> r.events[1].env,
                      proc  |-> run,
                      cause |-> IF run = "exit" THEN cause ELSE "none"]
           /\ firstFailed' = IF run # "ok" THEN "proc" ELSE "none"
           /\ found' = IF wrapper.op = "pull" THEN r.found ELSE FALSE
           /\ Return(r.err)
  /\ UNCHANGED <<dr, wrapper, osEnv, eg>>
  /\ UNCHANGED pvars

\* build: command up to the run of the engine: the environment, the build
\* arguments put after "docker build", the pipe and the copy task
BuildStart ==
  /\ pc = "command"
  /\ wrapper.op = "build"
  /\ \E order \in Orderings(extraKeys(osEnv)), pipeOk \in BOOLEAN :
       LET args      == build(dr, wrapper.tag, wrapper.pkg, wrapper.opts)
           Args      == <<"docker">> \o args
           buildArgs == proxyBuildArgs(osEnv, 1) \o extraBuildArgs(osEnv, order)
           newArgs   == SubSeq(Args, 1, 2) \o buildArgs \o SubSeq(Args, 3, Len(Args))
       IN  IF dr.ctx /\ ~pipeOk
           THEN /\ cmd' = [cmd EXCEPT !.Args = newArgs, !.Env = commandEnv(dr, args)]
                /\ Return([kind |-> "pipe"])
                /\ UNCHANGED eg
           ELSE /\ cmd' = [cmd EXCEPT
                             !.Args = IF dr.ctx
                                      THEN SubSeq(newArgs, 1, Len(newArgs) - 1)
                                             \o <<stdinMarker>>
                                      ELSE newArgs,
                             !.Env = commandEnv(dr, args)]
                /\ eg' = [copy |-> IF dr.ctx THEN "running" ELSE "none"]
                /\ pc' = "run"
                /\ UNCHANGED err
  /\ UNCHANGED <<dr, wrapper, osEnv, firstFailed, found, log>>
  /\ UNCHANGED pvars

\* cmd.Run: the engine is started, or cannot be
ProcStart ==
  /\ pc = "run"
  /\ cmd.proc = "idle"
  /\ \E s \in {"running", "notfound", "other"} :
       /\ cmd' = [cmd EXCEPT !.proc = s]
       /\ firstFailed' = IF s # "running" THEN Fails("proc") ELSE firstFailed
  /\ UNCHANGED <<dr, wrapper, osEnv, eg, found, log, pc, err>>
  /\ UNCHANGED pvars

\* the engine exits
ProcExit ==
  /\ cmd.proc = "running"
  /\ \E s \in {"ok", "exit"}, cause \in ExitCauses :
       /\ cmd' = [cmd EXCEPT !.proc = s,
                             !.cause = IF s = "exit" THEN cause ELSE "none"]
       /\ firstFailed' = IF s = "exit" THEN Fails("proc") ELSE firstFailed
  /\ UNCHANGED <<dr, wrapper, osEnv, eg, found, log, pc, err>>
  /\ UNCHANGED pvars

\* cmd.Run returns: an error is returned at once, success goes on to eg.Wait
RunReturn ==
  /\ pc = "run"
  /\ cmd.proc \in RunOutcomes
  /\ log' = Append(log, [op |-> "docker", args |-> Tail(cmd.Args),
                         env |-> cmd.Env, run |-> cmd.proc])
  /\ IF IsNil(runErr(cmd.proc))
     THEN pc' = "wait" /\ UNCHANGED err
     ELSE Return(runErr(cmd.proc))
  /\ UNCHANGED <<dr, wrapper, osEnv, cmd, eg, firstFailed, found>>
  /\ UNCHANGED pvars

\* the copy task ends: dr.ctx.Copy(stdin) returns and stdin is closed
CopyFinish ==
  /\ eg.copy = "running"
  /\ \E ok \in BOOLEAN :
       /\ eg' = [eg EXCEPT !.copy = IF ok THEN "ok" ELSE "failed"]
       /\ firstFailed' = IF ok THEN firstFailed ELSE Fails("copy")
  /\ UNCHANGED <<dr, wrapper, osEnv, cmd, found, log, pc, err>>
  /\ UNCHANGED pvars

\* return eg.Wait()
Wait ==
  /\ pc = "wait"
  /\ eg.copy # "running"
  /\ Return(waitErr(eg.copy))
  /\ UNCHANGED <<dr, wrapper, osEnv, cmd, eg, firstFailed, found, log>>
  /\ UNCHANGED pvars

Ref == <<"r", ":", "t">>
Wrappers ==
  { [op |-> "pull", img |-> Ref],
    [op |-> "push", img |-> Ref],
    [op |-> "tag", ref |-> Ref, tag |-> <<"r", ":", "u">>],
    [op |-> "save", tgt |-> <<"o">>, refs |-> <<Ref>>],
    [op |-> "build", tag |-> Ref, pkg |-> <<"p">>, opts |-> <<>>],
    [op |-> "build", tag |-> Ref, pkg |-> <<"p">>, opts |-> << <<"-", "q">> >>] }

InitCommand ==
  /\ dr \in [dct : BOOLEAN, cache : BOOLEAN, sign : BOOLEAN, ctx : BOOLEAN]
  /\ wrapper \in Wrappers
  /\ osEnv \in OsEnvs
  /\ cmd = IdleCmd
  /\ eg = IdleGroup
  /\ firstFailed = "none"
  /\ found = FALSE
  /\ img = <<>>
  /\ suffix = <<>>
  /\ pushImage = FALSE
  /\ pushManifest = FALSE
  /\ sign = FALSE
  /\ platforms = defaultPlatforms
  /\ auth = NoAuth
  /\ digest = <<>>
  /\ l = 0
  /\ err = Nil
  /\ pc = "command"
  /\ log = <<>>

NextCommand ==
  Command \/ BuildStart \/ ProcStart \/ ProcExit \/ RunReturn \/ CopyFinish \/ Wait

SpecCommand == InitCommand /\ [][NextCommand]_vars

(***************************************************************************)
(* Reading the log                                                         *)
(***************************************************************************)
At(op) == {i \in 1..Len(log) : log[i].op = op}
Returned == pc = "return"

\* the stage of the pipeline an event belongs to
Stage(e) == CASE e.op = "docker"           -> 1
              [] e.op = "getDockerAuth"    -> 2
              [] e.op = "manifestPush"     -> 3
              [] e.op = "PushManifestList" -> 3
              [] e.op = "manifest-list"    -> 3
              [] e.op = "signManifest"     -> 4
              [] e.op = "notary"           -> 4

ImagePushFailed == \E i \in At("docker") : log[i].run # "ok"
AuthFailed == \E i \in At("getDockerAuth") : ~log[i].ok
ManifestPushFailed == At("manifestPush") # {} /\ At("manifest-list") = {}
SignerInvoked == At("signManifest") # {} \/ At("notary") # {}

(***************************************************************************)
(* Claims on the pipeline (specification Spec)                             *)
(***************************************************************************)

\* C1: the stages of pushWithManifest occur in the order image push, auth
\* resolution, manifest-list push, signing; a stage starts only after every
\* earlier enabled stage has succeeded; a failed image push returns its error
\* with no auth resolution, manifest push or signer invocation; a failed
\* manifest push returns its error with no signer invocation.
C1_StageOrder ==
  /\ \A i, j \in 1..Len(log) : i < j => Stage(log[i]) <= Stage(log[j])
  /\ \A j \in 1..Len(log) :
       /\ (Stage(log[j]) > 1 /\ pushImage) =>
            \E i \in 1..(j - 1) : log[i].op = "docker" /\ log[i].run = "ok"
       /\ Stage(log[j]) > 2 =>
            \E i \in 1..(j - 1) : log[i].op = "getDockerAuth" /\ log[i].ok
       /\ (Stage(log[j]) > 3 /\ pushManifest) =>
            \E i \in 1..(j - 1) : log[i].op = "manifest-list"
  /\ ImagePushFailed =>
       /\ Returned /\ err.kind \in {"tool-missing", "exit", "other"}
       /\ Len(log) = 1
  /\ ManifestPushFailed =>
       /\ Returned
       /\ err.kind \in {"validation", "registry", "registry-missing", "registry-empty"}
       /\ ~SignerInvoked

C1_Witness ==
  /\ Returned /\ pushImage /\ pushManifest
  /\ At("docker") # {} /\ At("getDockerAuth") # {}
  /\ At("manifest-list") # {} /\ At("notary") # {}

\* C2: when stages 1-3 did not fail and content trust is disabled on the
\* runner, or it is enabled and the sign argument is false, the pipeline
\* returns success and the Trust Signer is never invoked.
C2_NoSigning ==
  (~dr.dct \/ ~sign) =>
    /\ ~SignerInvoked
    /\ (Returned /\ ~ImagePushFailed /\ ~AuthFailed /\ ~ManifestPushFailed)
         => IsNil(err)

C2_Witness ==
  /\ Returned /\ ~dr.dct /\ sign /\ IsNil(err)
  /\ At("manifest-list") # {} /\ ~SignerInvoked

\* C3: in every run that gets past the image push, credentials are resolved
\* exactly once whatever pushManifest and sign are, before any manifest push
\* or signing; if the resolution fails the pipeline returns an error and
\* neither the manifest push nor the signer is invoked.
C3_AuthOnce ==
  /\ Cardinality(At("getDockerAuth")) <= 1
  /\ (pc \notin {"pushImage", "getDockerAuth"} /\ ~ImagePushFailed)
       => Cardinality(At("getDockerAuth")) = 1
  /\ \A j \in 1..Len(log) :
       Stage(log[j]) > 2 => \E i \in 1..(j - 1) : log[i].op = "getDockerAuth"
  /\ AuthFailed =>
       /\ Returned /\ err.kind = "auth"
       /\ \A j \in 1..Len(log) : Stage(log[j]) <= 2

C3_Witness ==
  /\ Returned /\ AuthFailed /\ pushManifest /\ sign /\ dr.dct
  /\ err.kind = "auth"

\* C4 as stated: with pushImage, pushManifest and sign all false the
\* pipeline runs no external process, pushes no manifest and returns success.
C4_Original ==
  (Returned /\ ~pushImage /\ ~pushManifest /\ ~sign) =>
    /\ At("docker") = {} /\ At("notary") = {}
    /\ At("PushManifestList") = {}
    /\ IsNil(err)

\* C4 amended: with pushImage, pushManifest and sign all false the pipeline
\* runs neither the container engine nor the signing tool and pushes no
\* manifest; it resolves the credentials once and returns success exactly
\* when that resolution succeeds, the auth error otherwise.
C4_SkipAll ==
  (~pushImage /\ ~pushManifest /\ ~sign) =>
    /\ At("docker") = {} /\ At("notary") = {}
    /\ At("PushManifestList") = {}
    /\ Returned =>
         /\ Cardinality(At("getDockerAuth")) = 1
         /\ IsNil(err) <=> ~AuthFailed
         /\ ~IsNil(err) => err.kind = "auth"

C4_Witness ==
  /\ Returned /\ ~pushImage /\ ~pushManifest /\ ~sign
  /\ IsNil(err) /\ At("getDockerAuth") # {}

\* C5: with content trust enabled, sign true and pushManifest false, and no
\* failure in the earlier stages, the Trust Signer is invoked, with the empty
\* digest and length zero.
C5_SignUnpushed ==
  (Returned /\ dr.dct /\ sign /\ ~pushManifest /\ ~ImagePushFailed /\ ~AuthFailed)
    => /\ Cardinality(At("signManifest")) = 1
       /\ \A i \in At("signManifest") :
            /\ log[i].img = img
            /\ log[i].digest = <<>>
            /\ log[i].length = 0

C5_Witness ==
  /\ Returned /\ dr.dct /\ sign /\ ~pushManifest /\ pushImage
  /\ \E i \in At("signManifest") : log[i].digest = <<>> /\ log[i].length = 0

(***************************************************************************)
(* Claims on manifestPush (specification SpecManifest)                     *)
(***************************************************************************)
Slashes(p) == Cardinality({i \in 1..Len(p) : p[i] = "/"})
NoSlash(p) == Slashes(p) = 0
Malformed == {i \in 1..Len(platforms) : Slashes(platforms[i]) \notin {1, 2}}

\* C6 as stated: the manifest list is submitted with ignore-missing false
\* and allow-insecure false, and a push that succeeds omits no platform.
C6_Original ==
  /\ \A i \in At("PushManifestList") : ~log[i].ignoreMissing /\ ~log[i].insecure
  /\ \A i \in At("manifest-list") : Len(log[i].manifests) = Len(platforms)

\* C6 amended: the manifest list is submitted with ignore-missing set (true)
\* and allow-insecure false, so manifestPush never fails because the image of
\* one platform is absent from the registry; it succeeds with a manifest list
\* that omits the absent platforms.
C6_IgnoreMissing ==
  /\ \A i \in At("PushManifestList") : log[i].ignoreMissing /\ ~log[i].insecure
  /\ Returned => err.kind # "registry-missing"
  /\ \A i \in At("manifest-list") : Len(log[i].manifests) >= 1

C6_Witness ==
  /\ Returned /\ IsNil(err)
  /\ \E i \in At("manifest-list") : Len(log[i].manifests) < Len(platforms)

\* the entry is the one the claim gives for the platform string p
EntryFor(e, p) ==
  /\ e.Image = img \o <<"-">> \o e.Platform.Architecture
  /\ NoSlash(e.Platform.OS)
  /\ NoSlash(e.Platform.Architecture)
  /\ NoSlash(e.Platform.Variant)
  /\ IF Slashes(p) = 1
     THEN /\ e.Platform.Variant = <<>>
          /\ p = e.Platform.OS \o <<"/">> \o e.Platform.Architecture
     ELSE p = e.Platform.OS \o <<"/">> \o e.Platform.Architecture
                \o <<"/">> \o e.Platform.Variant

\* C7: when every platform string has 2 or 3 slash-separated parts,
\* manifestPush submits one manifest list, named by the base image, with one
\* entry per platform in the order of the platform list, each with image
\* reference base-architecture and the os, architecture and variant parsed
\* from the platform string (variant empty in the 2-part form).
C7_Entries ==
  (Returned /\ Malformed = {}) =>
    /\ Cardinality(At("PushManifestList")) = 1
    /\ \A i \in At("PushManifestList") :
         /\ log[i].input.Image = img
         /\ Len(log[i].input.Manifests) = Len(platforms)
         /\ \A k \in 1..Len(platforms) :
              EntryFor(log[i].input.Manifests[k], platforms[k])

C7_Witness ==
  /\ Returned /\ Malformed = {} /\ Len(platforms) = 2
  /\ Slashes(platforms[1]) = 2 /\ Slashes(platforms[2]) = 1
  /\ At("PushManifestList") # {}

\* C8: when some platform string has a number of slash-separated parts other
\* than 2 or 3, manifestPush returns a validation error carrying the index
\* (from 0) and the value of the first such entry, and makes no registry
\* call, also when earlier entries were well-formed.
C8_Validation ==
  (Returned /\ Malformed # {}) =>
    LET first == CHOOSE i \in Malformed : \A j \in Malformed : i <= j
    IN  /\ err.kind = "validation"
        /\ err.what = "platform"
        /\ err.index = first - 1
        /\ err.value = platforms[first]
        /\ At("PushManifestList") = {}
        /\ At("manifest-list") = {}

C8_Witness ==
  /\ Returned /\ Len(platforms) = 2
  /\ 1 \notin Malformed /\ 2 \in Malformed
  /\ err.kind = "validation" /\ err.index = 1

(***************************************************************************)
(* Claims on signManifest (specification SpecSign)                         *)
(***************************************************************************)
HasColon(s) == \E i \in 1..Len(s) : s[i] = ":"
\* the text after the first ':' is empty
TagEmpty(s) == HasColon(s) /\ IndexOf(s, ":") = Len(s)
\* the text before the first ':'
Prefix(s) == SubSeq(s, 1, IndexOf(s, ":") - 1)

\* C9 as stated: an image reference with no ':' or with an empty tag makes
\* signManifest return a validation error without running the signing tool.
C9_Original ==
  (Returned /\ (~HasColon(img) \/ TagEmpty(img))) =>
    /\ err.kind = "validation"
    /\ At("notary") = {}

\* C9 amended: an image reference with no ':' makes signManifest return a
\* validation error, naming the reference, without running the signing tool.
C9_NoColon ==
  (Returned /\ ~HasColon(img)) =>
    /\ err.kind = "validation"
    /\ err.what = "image"
    /\ err.value = img
    /\ At("notary") = {}

C9_Witness ==
  /\ Returned /\ ~HasColon(img) /\ Len(img) > 0
  /\ digest = sha256 \o <<":", "a", "b">>
  /\ err.kind = "validation"

\* C10: a digest with no ':' or whose text before the first ':' is not
\* exactly sha256 makes signManifest return a validation error without
\* running the signing tool, whatever the hash value.
C10_Algo ==
  (Returned /\ (~HasColon(digest) \/ Prefix(digest) # sha256)) =>
    /\ err.kind = "validation"
    /\ At("notary") = {}

C10_Witness ==
  /\ Returned /\ img = <<"r", ":", "t">>
  /\ HasColon(digest) /\ Prefix(digest) # sha256 /\ Len(Prefix(digest)) > 0
  /\ err.kind = "validation" /\ err.what = "algo"

\* the text after the first ':'
After(s) == SubSeq(s, IndexOf(s, ":") + 1, Len(s))
OneColon(s) == Cardinality({i \in 1..Len(s) : s[i] = ":"}) = 1

\* the number a sequence of decimal digits writes
RECURSIVE Decimal(_)
Decimal(s) ==
  IF Len(s) = 0 THEN 0
  ELSE 10 * Decimal(SubSeq(s, 1, Len(s) - 1))
       + (CHOOSE d \in 0..9 : Digit(d) = s[Len(s)])

\* C11: for a reference repo:tag and a digest sha256:hash that pass the
\* validation, the signing tool is run exactly once with target repository
\* docker.io/repo, the tag, the hash, the length in decimal and the role
\* targets/releases; repo, tag and hash are passed as they are.
C11_Args ==
  (Returned /\ OneColon(img) /\ OneColon(digest) /\ Prefix(digest) = sha256) =>
    /\ Cardinality(At("notary")) = 1
    /\ \A i \in At("notary") :
         /\ Len(log[i].args) = 13
         /\ log[i].args[5] = "addhash"
         /\ log[i].args[6] = "-p"
         /\ log[i].args[7] = dockerIo \o Prefix(img)
         /\ log[i].args[8] = After(img)
         /\ Decimal(log[i].args[9]) = l
         /\ log[i].args[10] = "--sha256"
         /\ log[i].args[11] = After(digest)
         /\ log[i].args[12] = "-r"
         /\ log[i].args[13] = "targets/releases"

C11_Witness ==
  /\ Returned /\ img = <<"r", ":", "t">>
  /\ digest = sha256 \o <<":", "a", "b">> /\ l = 528
  /\ \E i \in At("notary") : log[i].args[9] = <<"5", "2", "8">>

(***************************************************************************)
(* Further claims on the pipeline (specification Spec)                     *)
(***************************************************************************)

\* C16: in a run of pushWithManifest the push result (digest, length) is
\* produced at most once, by at most one manifest-list push, and it is read
\* (handed to signManifest) only when content trust is enabled on the runner
\* and the sign argument is true.
C16_PushResult ==
  /\ Cardinality(At("PushManifestList")) <= 1
  /\ Cardinality(At("manifest-list")) <= 1
  /\ (digest # <<>> \/ l # 0) => At("manifest-list") # {}
  /\ At("signManifest") # {} => (dr.dct /\ sign)
  /\ \A i \in At("signManifest") : log[i].digest = digest /\ log[i].length = l

C16_Witness ==
  /\ Returned /\ dr.dct /\ sign
  /\ At("manifest-list") # {}
  /\ \E i \in At("signManifest") : log[i].digest # <<>> /\ log[i].length = 528

\* C18: in a run of pushWithManifest with pushImage true and the sign
\* argument false, the image push does not carry the trust-enable variable,
\* whatever the content-trust and sign settings of the runner.
C18_PushWithoutTrust ==
  (pushImage /\ ~sign) =>
    \A i \in At("docker") :
      \A k \in 1..Len(log[i].env) : log[i].env[k] # dctEnableEnv

\* C20 as stated: the notary subprocess is started only after a manifest-list
\* push of the same run succeeded with a sha256 digest; when the manifest push
\* is skipped it is never started, and with content trust enabled and sign
\* true the run returns a validation error.
C20_Original ==
  /\ At("notary") # {} =>
       /\ At("manifest-list") # {}
       /\ HasColon(digest) /\ Prefix(digest) = sha256
  /\ ~pushManifest => At("notary") = {}
  /\ (Returned /\ ~pushManifest /\ dr.dct /\ sign) => err.kind = "validation"

\* C20 amended: as stated, except that the run with the manifest push
\* skipped, content trust enabled and sign true returns the validation error
\* when the image push and the auth resolution did not fail; otherwise it
\* returns the error of the stage that failed.
C20_NotaryNeedsPush ==
  /\ At("notary") # {} =>
       /\ At("manifest-list") # {}
       /\ HasColon(digest) /\ Prefix(digest) = sha256
  /\ ~pushManifest => At("notary") = {}
  /\ (Returned /\ ~pushManifest /\ dr.dct /\ sign) =>
       /\ ~IsNil(err)
       /\ (~ImagePushFailed /\ ~AuthFailed) => err.kind = "validation"
       /\ ImagePushFailed => err.kind \in {"tool-missing", "exit", "other"}
       /\ AuthFailed => err.kind = "auth"

C20_Witness ==
  /\ Returned /\ ~pushManifest /\ dr.dct /\ sign /\ img = <<"r", ":", "t">>
  /\ At("signManifest") # {} /\ At("notary") = {}
  /\ err.kind = "validation" /\ err.what = "digest"

(***************************************************************************)
(* Claims on command and its wrappers (specification SpecCommand)          *)
(***************************************************************************)
CopyStarted == eg.copy # "none"
ProcFailed == cmd.proc \in {"exit", "notfound", "other"}
HasTrust(env) == \E k \in 1..Len(env) : env[k] = dctEnableEnv

\* C12: when a build context is supplied, command never returns, once the
\* copy task was started, while the copy task is still running or the engine
\* process is still alive, also when the process exits with a failure.
C12_Joined ==
  (Returned /\ wrapper.op = "build" /\ CopyStarted) =>
    /\ eg.copy \in {"ok", "failed"}
    /\ cmd.proc \in RunOutcomes

\* C13: when a build context is supplied and the copy fails while the engine
\* process exits zero, command returns the copy error, never success.
C13_CopyError ==
  (Returned /\ wrapper.op = "build" /\ CopyStarted /\ cmd.proc = "ok") =>
    /\ eg.copy \in {"ok", "failed"}
    /\ eg.copy = "failed" => err.kind = "copy"
    /\ eg.copy = "ok" => IsNil(err)

C13_Witness ==
  /\ Returned /\ wrapper.op = "build" /\ dr.ctx
  /\ cmd.proc = "ok" /\ eg.copy = "failed" /\ err.kind = "copy"

\* C14: an engine invocation has DOCKER_CONTENT_TRUST=1 appended to its
\* environment exactly when content trust is active on the runner and the
\* invocation is not an image push of a runner that does not sign; so pull,
\* tag, build and save carry it whenever content trust is active and nothing
\* carries it when content trust is inactive.
C14_TrustEnv ==
  \A i \in At("docker") :
    /\ HasTrust(log[i].env) <=> (dr.dct /\ (wrapper.op # "push" \/ dr.sign))
    /\ Len(log[i].env) <= 1
    /\ wrapper.op = "push" <=>
         (Len(log[i].args) >= 2 /\ log[i].args[1] = "image" /\ log[i].args[2] = "push")

C14_Witness ==
  /\ wrapper.op = "build" /\ dr.dct /\ ~dr.sign
  /\ \E i \in At("docker") : HasTrust(log[i].env)

\* C15: pull returns (true, nil) when the engine pull succeeds; a failed pull
\* becomes (false, nil) only when the image is not in the registry; every
\* other failure is returned as an error.
C15_PullSoftFailure ==
  (Returned /\ wrapper.op = "pull") =>
    /\ cmd.proc = "ok" => (found /\ IsNil(err))
    /\ (~found /\ IsNil(err)) => (cmd.proc = "exit" /\ cmd.cause = "absent")
    /\ (cmd.proc # "ok" /\ cmd.cause # "absent") => ~IsNil(err)

\* the pair the claim gives for the proxy variable n
ProxyPair(n) ==
  IF n \in DOMAIN osEnv THEN <<"--build-arg", <<n, "=", osEnv[n]>>>> ELSE <<>>
ProxyPairs ==
  ProxyPair("http_proxy") \o ProxyPair("https_proxy") \o ProxyPair("no_proxy")
    \o ProxyPair("ftp_proxy") \o ProxyPair("all_proxy")
    \o ProxyPair("HTTP_PROXY") \o ProxyPair("HTTPS_PROXY") \o ProxyPair("NO_PROXY")
    \o ProxyPair("FTP_PROXY") \o ProxyPair("ALL_PROXY")
BadBuildArgs ==
  "LK_BUILD_ARGS" \in DOMAIN osEnv /\ osEnv["LK_BUILD_ARGS"] \in InvalidBuildArgs

====
